---- MODULE Spec2Model ----
(***************************************************************************)
(* Model of tree_cli: the directory-tree renderer (the _TreeGenerator of   *)
(* src/app/tree_cli/generate_tree.py and the option-bearing one of         *)
(* src/generate_tree.py), the ignore-pattern loader (src/utils.py) and     *)
(* combine_files (src/combine_code.py, src/app/combine_code.py).           *)
(*                                                                         *)
(* The two source trees are the two variants of the model: "opt" is        *)
(* src/generate_tree.py with src/combine_code.py, which imports it; "app"  *)
(* is src/app/tree_cli/generate_tree.py with src/app/combine_code.py.  The *)
(* latter imports DirectoryTree from a sibling module generate_tree; the   *)
(* DirectoryTree of src/app/tree_cli, whose constructor it calls with the  *)
(* same arguments, stands for it.                                          *)
(*                                                                         *)
(* A path is a sequence of names relative to the root directory; the file  *)
(* system is the set of the paths that exist.  A rendered line carries its *)
(* text (the sequence of string pieces the code concatenates) and, as      *)
(* ghost fields, the entry it was rendered for.                            *)
(***************************************************************************)
EXTENDS Integers, Sequences, FiniteSets, TLC

(***************************************************************************)
(* Bounds of the model.                                                    *)
(***************************************************************************)
MaxEntries == 3        \* entries of the project below the root
MaxBuilds == 2         \* tree builds on the generators of one process

(***************************************************************************)
(* Strings of the program.  The box-drawing characters of the connectors   *)
(* are written in ASCII: U+2514 U+2500 U+2500 as L--, U+251C U+2500 U+2500 *)
(* as +--, U+2502 as |.                                                    *)
(***************************************************************************)
ELBOW == "L--"
TEE == "+--"
PIPE_PREFIX == "|   "
PIPE_STRIPPED == "|"
SPACE_PREFIX == "    "
SEP == "/"
PYCACHE == "__pycache__"
GITIGNORE == ".gitignore"
MYIGNORE == ".myignore"
COMBINED == "combined_code.txt"
RootName == "proj"

(***************************************************************************)
(* The file system.  The kind of an entry is fixed by its name.            *)
(***************************************************************************)
\* An entry that is neither a directory nor a regular file: a symbolic link
\* whose target does not exist (is_dir() and is_file() are both False, and
\* open raises FileNotFoundError).
OtherNames == {"link"}
DirNames == {"src", "pkg", PYCACHE, ".git"}
HiddenNames == {".env", ".hidden", ".git", GITIGNORE, MYIGNORE}
PyNames == {"a.py", "b.py"}
FileNames == {"a.py", "b.py", ".env", ".hidden", "README.md", "x.txt",
              "c.pyc", "config", GITIGNORE, MYIGNORE, COMBINED}
Names == DirNames \cup FileNames \cup OtherNames

\* The entries a project may hold (every subset closed under parent).
Universe ==
    { <<"src">>, <<"src", "a.py">>, <<"src", ".hidden">>, <<"src", "pkg">>,
      <<"src", "pkg", "b.py">>, <<"README.md">>, <<".env">>, <<"x.txt">>,
      <<"b.py">>, <<PYCACHE>>, <<PYCACHE, "c.pyc">>, <<".git">>,
      <<".git", "config">>, <<"link">> }

Last(p) == p[Len(p)]
Parent(p) == SubSeq(p, 1, Len(p) - 1)
ParentClosed(S) == \A p \in S : Len(p) > 1 => Parent(p) \in S

is_dir(p) == Last(p) \in DirNames
is_file(p) == Last(p) \in FileNames
startswith_dot(name) == name \in HiddenNames

\* The two listing orders the file system may enumerate a directory in.
OrderA == << "src", "link", "a.py", ".hidden", "pkg", "b.py", "README.md", ".env",
             "x.txt", PYCACHE, "c.pyc", ".git", "config", GITIGNORE,
             MYIGNORE, COMBINED >>
Reverse(s) == [i \in 1..Len(s) |-> s[Len(s) + 1 - i]]
Orders == {OrderA, Reverse(OrderA)}

\* Content of the regular files (the ignore files and the output file aside).
Content(p) == IF Last(p) = "x.txt" THEN "hello" ELSE Last(p)


(***************************************************************************)
(* Ignore patterns.  An ignore file is a sequence of lines; pathspec       *)
(* compiles each line into a pattern (GitWildMatchPattern) and match_file  *)
(* answers with the verdict of the LAST pattern that matches the path.     *)
(***************************************************************************)
PatternLines == {"README.md", "*.py", "!a.py", "src", "src/"}

\* GitWildMatchPattern(line): "!" negates; a line without "/" matches at
\* any level, and matches everything below a matching directory; a line
\* ending in "/" matches only what lies below a directory of that name (the
\* path of the directory itself is passed without a trailing "/").
pattern_include(line) == line # "!a.py"
pattern_matches(line, p) ==
    CASE line = "README.md" -> \E i \in 1..Len(p) : p[i] = "README.md"
      [] line = "src"       -> \E i \in 1..Len(p) : p[i] = "src"
      [] line = "src/"      -> \E i \in 1..(Len(p) - 1) : p[i] = "src"
      [] line = "*.py"      -> \E i \in 1..Len(p) : p[i] \in PyNames
      [] line = "!a.py"     -> \E i \in 1..Len(p) : p[i] = "a.py"
      [] OTHER              -> FALSE

SetMax(S) == CHOOSE x \in S : \A y \in S : y <= x

match_file(lines, p) ==
    LET hits == {i \in 1..Len(lines) : pattern_matches(lines[i], p)}
    IN  hits # {} /\ pattern_include(lines[SetMax(hits)])

\* The world a call reads: w.fs the existing paths, w.ignore the lines of
\* the ignore files, w.order the listing order, w.denied the paths the
\* system refuses to open or to list (PermissionError).

\* f.read() on an ignore file: the text, every line followed by its
\* terminator.
NEWLINE == "\n"
RECURSIVE read_text(_)
read_text(lines) ==
    IF lines = <<>> THEN <<>>
    ELSE <<Head(lines), NEWLINE>> \o read_text(Tail(lines))

\* str.splitlines(): the pieces between the terminators, in text order; a
\* last piece without terminator is a line too.
RECURSIVE split_from(_, _)
split_from(text, current) ==
    IF text = <<>> THEN current
    ELSE IF Head(text) = NEWLINE
         THEN (IF current = <<>> THEN <<"">> ELSE current)
              \o split_from(Tail(text), <<>>)
         ELSE split_from(Tail(text), Append(current, Head(text)))
splitlines(text) == split_from(text, <<>>)

\* The result of load_ignore_patterns: the list it returns, or the
\* exception it raises, and what it wrote to the error log.
Loaded(patterns) == [patterns |-> patterns, exc |-> "", logged |-> <<>>]
LoadFailed(exc) ==
    [patterns |-> <<>>, exc |-> exc, logged |-> <<"Error while reading file">>]

\* A faulty load_ignore_patterns: the error is logged and swallowed, the
\* empty list is returned.
load_ignore_patterns_swallowing(w, ignore_file) ==
    IF <<ignore_file>> \in w.fs
    THEN IF <<ignore_file>> \in w.denied
         THEN [LoadFailed("PermissionError") EXCEPT !.exc = ""]
         ELSE Loaded(splitlines(read_text(w.ignore[ignore_file])))
    ELSE Loaded(<<>>)

\* load_ignore_patterns(root_dir, ignore_file): when root_dir/ignore_file
\* is a file, open and read it and split the text into lines; an exception
\* of the open or the read is logged and raised again; when it is no file,
\* the empty list.
load_ignore_patterns(w, ignore_file) ==
    IF <<ignore_file>> \in w.fs
    THEN IF <<ignore_file>> \in w.denied
         THEN LoadFailed("PermissionError")
         ELSE Loaded(splitlines(read_text(w.ignore[ignore_file])))
    ELSE Loaded(<<>>)

(***************************************************************************)
(* Directory listing and the entry filters.                                *)
(***************************************************************************)
\* directory.iterdir(): the children of the directory, in listing order.
iterdir(w, directory) ==
    LET names == SelectSeq(w.order, LAMBDA n : Append(directory, n) \in w.fs)
    IN  [i \in 1..Len(names) |-> Append(directory, names[i])]

\* sorted(entries, key=is_file): stable, False before True.
sorted_by_is_file(entries) ==
    SelectSeq(entries, LAMBDA e : ~is_file(e)) \o
    SelectSeq(entries, LAMBDA e : is_file(e))

\* A faulty filter_ignored: the ignore spec is never consulted.
filter_ignored_skipped(g, entries) == entries

filter_ignored(g, entries) ==
    IF g.ignore_patterns # <<>>
    THEN SelectSeq(entries, LAMBDA e : ~match_file(g.ignore_patterns, e))
    ELSE entries

\* A faulty _prepare_entries: dir_only does not filter, the entries are
\* always sorted.
prepare_entries_app_unfiltered(g, w, directory) ==
    sorted_by_is_file(filter_ignored(g, iterdir(w, directory)))

\* _TreeGenerator._prepare_entries of src/app/tree_cli/generate_tree.py
prepare_entries_app(g, w, directory) ==
    LET entries == filter_ignored(g, iterdir(w, directory))
    IN  IF g.dir_only
        THEN SelectSeq(entries, is_dir)
        ELSE sorted_by_is_file(entries)

filter_hidden(g, entries) ==
    IF ~g.include_hidden
    THEN SelectSeq(entries, LAMBDA e : ~startswith_dot(Last(e)))
    ELSE entries

\* _TreeGenerator._prepare_entries of src/generate_tree.py
prepare_entries_opt(g, w, directory) ==
    sorted_by_is_file(filter_ignored(g, filter_hidden(g, iterdir(w, directory))))

(***************************************************************************)
(* Rendering.                                                              *)
(***************************************************************************)
Line(text, kind, path) == [text |-> text, kind |-> kind, path |-> path]

\* prefix.rstrip(): a prefix is a sequence of PIPE_PREFIX / SPACE_PREFIX.
RECURSIVE rstrip(_)
rstrip(prefix) ==
    IF prefix = <<>> THEN <<>>
    ELSE IF Last(prefix) = SPACE_PREFIX THEN rstrip(Parent(prefix))
    ELSE Append(Parent(prefix), PIPE_STRIPPED)

tree_head == Line(<<RootName, SEP>>, "head", <<>>)

add_file(file, prefix, connector) ==
    Line(prefix \o <<connector, " ", Last(file)>>, "file", file)

directory_line(directory, prefix, connector) ==
    Line(prefix \o <<connector, " ", Last(directory), SEP>>, "dir", directory)

closing_line(directory, prefix) == Line(rstrip(prefix), "close", directory)

child_prefix(index, entries_count, prefix) ==
    IF index # entries_count - 1
    THEN Append(prefix, PIPE_PREFIX)
    ELSE Append(prefix, SPACE_PREFIX)

connector_of(index, entries_count) ==
    IF index = entries_count - 1 THEN ELBOW ELSE TEE

\* The result of a call on the generator: the lines it appended to
\* self._tree and the exception it raised ("" when the call returns).
Returned(lines) == [lines |-> lines, exc |-> ""]
Raised(lines, exc) == [lines |-> lines, exc |-> exc]

\* directory.iterdir() is consumed inside _prepare_entries (by the list
\* comprehensions or by sorted); on a directory the system refuses to list
\* the scan raises PermissionError there.  Neither _prepare_entries nor
\* _tree_body nor _add_directory nor build_tree has a try block.
listing_raises(w, directory) == directory \in w.denied

\* _tree_body and _add_directory of src/app/tree_cli/generate_tree.py.
\* index counts from 0 as enumerate does.
RECURSIVE tree_body_app(_, _, _, _)
\* A faulty _add_directory: a directory that renders no child is left
\* without its closing line.
add_directory_app_unclosed(g, w, directory, index, entries_count, prefix, connector) ==
    LET inner == child_prefix(index, entries_count, prefix)
        body == tree_body_app(g, w, directory, inner)
        opened == <<directory_line(directory, prefix, connector)>> \o body.lines
    IN  IF body.exc # "" THEN Raised(opened, body.exc)
        ELSE Returned(opened \o (IF body.lines = <<>> THEN <<>>
                                 ELSE <<closing_line(directory, inner)>>))

add_directory_app(g, w, directory, index, entries_count, prefix, connector) ==
    LET inner == child_prefix(index, entries_count, prefix)
        body == tree_body_app(g, w, directory, inner)
        opened == <<directory_line(directory, prefix, connector)>> \o body.lines
    IN  IF body.exc # "" THEN Raised(opened, body.exc)
        ELSE Returned(opened \o <<closing_line(directory, inner)>>)

tree_body_app(g, w, directory, prefix) ==
    IF listing_raises(w, directory) THEN Raised(<<>>, "PermissionError")
    ELSE
    LET entries == prepare_entries_app(g, w, directory)
        entries_count == Len(entries)
        RECURSIVE loop(_)
        loop(index) ==
            IF index >= entries_count THEN Returned(<<>>)
            ELSE LET entry == entries[index + 1]
                     connector == connector_of(index, entries_count)
                     step ==
                         IF is_dir(entry)
                         THEN IF Last(entry) # PYCACHE
                              THEN add_directory_app(g, w, entry, index,
                                       entries_count, prefix, connector)
                              ELSE Returned(<<>>)
                         ELSE Returned(<<add_file(entry, prefix, connector)>>)
                 IN  IF step.exc # "" THEN step
                     ELSE LET rest == loop(index + 1)
                          IN  Raised(step.lines \o rest.lines, rest.exc)
    IN  loop(0)

\* build_tree of src/app/tree_cli/generate_tree.py: what one call appends.
build_tree_app(g, w) ==
    LET body == tree_body_app(g, w, <<>>, <<>>)
    IN  Raised(<<tree_head>> \o body.lines, body.exc)


\* _tree_body, _add_directory and _add_file of src/generate_tree.py.

\* _add_directory appends the directory line, extends the prefix and then
\* evaluates the argument depth+1: depth is neither a parameter nor a local
\* of _add_directory nor a global of the module, so the evaluation raises
\* NameError before _tree_body is entered and before the closing line.
add_directory_opt(g, w, directory, index, entries_count, prefix, connector) ==
    LET inner == child_prefix(index, entries_count, prefix)
    IN  Raised(<<directory_line(directory, prefix, connector)>>, "NameError")

tree_body_opt(g, w, directory, prefix, depth) ==
    IF g.limit_depth # {} /\ (\A d \in g.limit_depth : depth > d)
    THEN Returned(<<>>)
    ELSE IF listing_raises(w, directory) THEN Raised(<<>>, "PermissionError")
    ELSE
    LET entries == prepare_entries_opt(g, w, directory)
        entries_count == Len(entries)
        RECURSIVE loop(_)
        loop(index) ==
            IF index >= entries_count THEN Returned(<<>>)
            ELSE LET entry == entries[index + 1]
                     connector == connector_of(index, entries_count)
                     step ==
                         IF is_dir(entry)
                         THEN IF Last(entry) # PYCACHE
                              THEN add_directory_opt(g, w, entry, index,
                                       entries_count, prefix, connector)
                              ELSE Returned(<<>>)
                         ELSE IF ~g.dir_only
                              THEN Returned(<<add_file(entry, prefix, connector)>>)
                              ELSE Returned(<<>>)
                 IN  IF step.exc # "" THEN step
                     ELSE LET rest == loop(index + 1)
                          IN  Raised(step.lines \o rest.lines, rest.exc)
    IN  loop(0)

\* _tree_head() followed by _tree_body(self._root_dir) on the generator of
\* src/generate_tree.py (the class defines no build_tree).
head_and_body_opt(g, w) ==
    LET body == tree_body_opt(g, w, <<>>, <<>>, 0)
    IN  Raised(<<tree_head>> \o body.lines, body.exc)

\* self._generator.build_tree(): the attribute lookup on a _TreeGenerator.
build_tree(g, w) ==
    IF g.variant = "app"
    THEN build_tree_app(g, w)
    ELSE Raised(<<>>, "AttributeError")

(***************************************************************************)
(* State.                                                                  *)
(***************************************************************************)
VARIABLES
    script,     \* the script that runs: "generate_tree" or "combine_code"
    variant,    \* "app": the sources under src/app; "opt": those under src
    opts,       \* the options of the tree builds of this run
    fs,         \* the paths that exist below the root directory
    order,      \* the order in which a directory lists its names
    ignore,     \* the lines of the ignore files (when they exist)
    denied,     \* the paths the system refuses to open or to list
    loads,      \* the load_ignore_patterns calls made so far
    gen,        \* the DirectoryTree and its _TreeGenerator, or NoGen
    calls,      \* the tree builds made so far, with what each handed back
    comb        \* the combine_files calls made so far

vars == <<script, variant, opts, fs, order, ignore, denied, loads, gen, calls,
          comb>>

World == [fs |-> fs, order |-> order, ignore |-> ignore, denied |-> denied]

NoGen == [id |-> 0]

\* One load_ignore_patterns call and its result.
LoadCall(ignore_file, loaded) ==
    [ignore_file |-> ignore_file, exc |-> loaded.exc,
     patterns |-> loaded.patterns, logged |-> loaded.logged]

\* No load_ignore_patterns call has raised: the exception of one unwinds
\* through DirectoryTree.__init__ and run() and ends the process.
Running == \A i \in 1..Len(loads) : loads[i].exc = ""

\* _TreeGenerator.__init__ via DirectoryTree.__init__: the patterns come from
\* load_ignore_patterns(root_dir, ignore_file), the tree list starts empty.
TreeGenerator(id, v, w, dir_only, include_hidden, limit_depth, ignore_file) ==
    [id |-> id, variant |-> v, dir_only |-> dir_only,
     include_hidden |-> include_hidden, limit_depth |-> limit_depth,
     ignore_patterns |-> load_ignore_patterns(w, ignore_file).patterns,
     tree |-> <<>>]

(***************************************************************************)
(* Inputs.                                                                 *)
(***************************************************************************)
\* The project of the scenario: src/a.py, src/.hidden and README.md.
ScenarioProject ==
    { <<"src">>, <<"src", "a.py">>, <<"src", ".hidden">>, <<"README.md">> }

\* The projects: parent-closed sets of at most MaxEntries entries, and the
\* project of the scenario.
Projects ==
    {S \in SUBSET Universe : ParentClosed(S) /\ Cardinality(S) <= MaxEntries}
    \cup {ScenarioProject}

\* Content of .gitignore: exclusions of a file, of a directory and of a
\* glob, and negations after and before the pattern they re-include from.
GitIgnoreFiles ==
    { <<>>, <<"README.md">>, <<"src">>, <<"src/">>, <<"*.py">>,
      <<"*.py", "!a.py">>, <<"!a.py", "*.py">>, <<"src", "!a.py">> }
\* Content of the alternative ignore file named by --ignore_file.
MyIgnoreFiles == {<<"README.md">>}

TreeOptions ==
    [dir_only : BOOLEAN, include_hidden : BOOLEAN, limit_depth : {{}, {0}, {1}}]
\* src/app/tree_cli/generate_tree.py has neither include_hidden nor limit_depth
AppOptions == {o \in TreeOptions : ~o.include_hidden /\ o.limit_depth = {}}
DefaultOptions ==
    [dir_only |-> FALSE, include_hidden |-> FALSE, limit_depth |-> {}]

Inputs ==
    /\ script \in {"generate_tree", "combine_code"}
    /\ variant \in {"app", "opt"}
    /\ opts \in IF script = "combine_code" THEN {DefaultOptions}
                ELSE IF variant = "app" THEN AppOptions ELSE TreeOptions
    /\ order \in Orders
    /\ \E project \in Projects, hasGit \in BOOLEAN, hasMy \in BOOLEAN :
         /\ script = "generate_tree" => ~hasMy
         /\ fs = project \cup (IF hasGit THEN {<<GITIGNORE>>} ELSE {})
                         \cup (IF hasMy THEN {<<MYIGNORE>>} ELSE {})
         /\ \E gi \in GitIgnoreFiles, my \in MyIgnoreFiles :
              /\ ~hasGit => gi = <<>>
              /\ ~hasMy => my = <<"README.md">>
              /\ ignore = [f \in {GITIGNORE, MYIGNORE} |->
                              IF f = GITIGNORE THEN gi ELSE my]

\* Nothing has run yet.
Started ==
    /\ loads = <<>>
    /\ gen = NoGen
    /\ calls = <<>>
    /\ comb = <<>>

\* A project the system lets the program read and list throughout.
Init == Inputs /\ denied = {} /\ Started


(***************************************************************************)
(* The tree scripts.                                                       *)
(***************************************************************************)
Text(lines) == [i \in 1..Len(lines) |-> lines[i].text]

Used(g) == \E i \in 1..Len(calls) : calls[i].gid = g.id

\* DirectoryTree(root_dir, dir_only, ...) as run() constructs it; the
\* ignore_file argument is left at its default.
NewTree(builds) ==
    /\ script = "generate_tree"
    /\ Len(calls) < builds
    /\ gen = NoGen \/ Used(gen)
    /\ Running
    /\ LET loaded == load_ignore_patterns(World, GITIGNORE)
       IN  /\ loads' = Append(loads, LoadCall(GITIGNORE, loaded))
           /\ gen' = IF loaded.exc # "" THEN gen
                     ELSE TreeGenerator(gen.id + 1, variant, World,
                              opts.dir_only, opts.include_hidden,
                              opts.limit_depth, GITIGNORE)
    /\ UNCHANGED <<script, variant, opts, fs, order, ignore, denied, calls, comb>>

\* One call on the generator: what it appended to self._tree, the exception
\* it raised, the list it left (build_tree returns self._tree itself) and
\* the lines generate printed to its stream.
Call(op, g, result) ==
    LET tree == g.tree \o result.lines
    IN  [op |-> op, gid |-> g.id, exc |-> result.exc, tree |-> tree,
         printed |-> IF op = "generate" /\ result.exc = ""
                     THEN Text(tree) ELSE <<>>]

\* DirectoryTree.generate(): build_tree, then print every entry of the
\* returned list to the stream.  The stream of the tree script is a file
\* outside the project (the -o option): writing it leaves fs alone.
GenerateTree(builds) ==
    /\ script = "generate_tree"
    /\ gen # NoGen
    /\ Len(calls) < builds
    /\ LET result == build_tree(gen, World)
       IN  /\ gen' = [gen EXCEPT !.tree = @ \o result.lines]
           /\ calls' = Append(calls, Call("generate", gen, result))
    /\ UNCHANGED <<script, variant, opts, fs, order, ignore, denied, loads, comb>>

\* _tree_head() and _tree_body(root_dir) called on the generator of
\* src/generate_tree.py, which has no build_tree to call them.
TreeBody ==
    /\ script = "generate_tree"
    /\ gen # NoGen
    /\ gen.variant = "opt"
    /\ calls = <<>>
    /\ LET result == head_and_body_opt(gen, World)
       IN  /\ gen' = [gen EXCEPT !.tree = @ \o result.lines]
           /\ calls' = Append(calls, Call("_tree_body", gen, result))
    /\ UNCHANGED <<script, variant, opts, fs, order, ignore, denied, loads, comb>>

(***************************************************************************)
(* combine_files.                                                          *)
(***************************************************************************)
Chunk(k, path, data) == [k |-> k, p |-> path, d |-> data]

\* os.walk(root_dir), top-down: the non-directories of a directory in
\* listing order, then each sub-directory in turn.  The error of a scan is
\* ignored (onerror is None): a directory it cannot list yields nothing.
RECURSIVE os_walk(_, _)
os_walk(w, top) ==
    IF top \in w.denied THEN <<>> ELSE
    LET entries == iterdir(w, top)
        files == SelectSeq(entries, LAMBDA e : ~is_dir(e))
        dirs == SelectSeq(entries, is_dir)
        RECURSIVE below(_)
        below(i) == IF i > Len(dirs) THEN <<>>
                    ELSE os_walk(w, dirs[i]) \o below(i + 1)
    IN  files \o below(1)

\* infile.read(): the text of a file, as a sequence of lines.  own is what
\* a read of the output file itself yields while it is being written.
read_file(w, path, own) ==
    IF path = <<COMBINED>> THEN own
    ELSE IF path \in {<<GITIGNORE>>, <<MYIGNORE>>} THEN w.ignore[Last(path)]
    ELSE <<Content(path)>>

\* open(file_path, "r", ...) raises on a file the system refuses to open
\* and on a link without target; the except clause of the loop logs the
\* error and the loop goes on.
open_raises(w, file_path) ==
    file_path \in w.denied \/ Last(file_path) \in OtherNames

\* The three writes of the delimiter block of a file.
delimiter_block(file_path) ==
    << Chunk("separator", <<>>, <<>>),
       Chunk("path", file_path, <<>>),
       Chunk("separator", <<>>, <<>>) >>

\* The loop over the walk: skip what the spec matches, else write the
\* delimiter block, then open the file and write its content.
RECURSIVE write_files(_, _, _, _)
write_files(w, patterns, files, own) ==
    IF files = <<>> THEN <<>>
    ELSE LET file_path == Head(files)
             rest == write_files(w, patterns, Tail(files), own)
         IN  IF match_file(patterns, file_path) THEN rest
             ELSE delimiter_block(file_path)
                  \o (IF open_raises(w, file_path) THEN <<>>
                      ELSE <<Chunk("content", file_path,
                                   read_file(w, file_path, own))>>)
                  \o rest

\* What a read of the partly written output file may yield: nothing yet
\* flushed, or the flushed beginning.
OwnReads == {<<>>, <<"# Instructions:">>}

\* DirectoryTree(root_dir, dir_only=False, output_file=output_file) as
\* combine_files constructs it: no ignore_file is passed on.
combine_tree(w) ==
    TreeGenerator(1, variant, w, FALSE, FALSE, {}, GITIGNORE)

CombineFiles(output_dir, ignore_file) ==
    /\ script = "combine_code"
    /\ comb = <<>>
    /\ LET first == load_ignore_patterns(World, ignore_file)
           ignore_patterns == first.patterns
           \* DirectoryTree.__init__ loads the patterns of the tree
           second == load_ignore_patterns(World, GITIGNORE)
           g == combine_tree(World)
           built == IF first.exc # "" THEN Raised(<<>>, first.exc)
                    ELSE IF second.exc # "" THEN Raised(<<>>, second.exc)
                    ELSE build_tree(g, World)
           \* generate() opens output_file for writing once build_tree returned
           fs1 == IF built.exc = "" /\ output_dir = "root"
                  THEN fs \cup {<<COMBINED>>} ELSE fs
           w1 == [World EXCEPT !.fs = fs1]
       IN  /\ fs' = fs1
           /\ loads' = loads \o <<LoadCall(ignore_file, first)>>
                 \o (IF first.exc # "" THEN <<>>
                     ELSE <<LoadCall(GITIGNORE, second)>>)
           /\ \E own \in OwnReads :
                comb' = Append(comb,
                  [output_dir |-> output_dir, ignore_file |-> ignore_file,
                   exc |-> built.exc,
                   tree_patterns |-> g.ignore_patterns,
                   loop_patterns |-> ignore_patterns,
                   tree |-> built.lines,
                   out |-> IF built.exc # "" THEN <<>>
                           ELSE << Chunk("instructions", <<>>, <<>>),
                                   Chunk("rule", <<>>, <<>>),
                                   Chunk("structure", <<>>, <<>>) >>
                                \o write_files(w1, ignore_patterns,
                                               os_walk(w1, <<>>), own)])
    /\ UNCHANGED <<script, variant, opts, order, ignore, denied, gen, calls>>

Combine ==
    \E output_dir \in {"root", "elsewhere"}, ignore_file \in {GITIGNORE, MYIGNORE} :
        CombineFiles(output_dir, ignore_file)

\* One run of a script: run() of generate_tree constructs one DirectoryTree
\* and calls generate() once; run() of combine_code calls combine_files once.
NewDirectoryTree == NewTree(1)
Generate == GenerateTree(1)

Next == NewDirectoryTree \/ Generate \/ TreeBody \/ Combine

Spec == Init /\ [][Next]_vars

\* A process that builds trees repeatedly, on the same DirectoryTree or on a
\* new one, over an unchanged project.
InitAgain == Init /\ script = "generate_tree"
NewDirectoryTreeAgain == NewTree(MaxBuilds)
GenerateAgain == GenerateTree(MaxBuilds)
NextAgain == NewDirectoryTreeAgain \/ GenerateAgain

SpecAgain == InitAgain /\ [][NextAgain]_vars

\* A run over a project in which the system refuses one path: a directory
\* it does not let the program list, or a file it does not let it open.
\* The runs are those of Next, without depth limit and without
\* include_hidden, over the ignore files DeniedIgnoreFiles.
DeniedIgnoreFiles == { <<>>, <<"*.py", "!a.py">> }
InitDenied ==
    /\ Inputs
    /\ opts.limit_depth = {}
    /\ ~opts.include_hidden
    /\ ignore[GITIGNORE] \in DeniedIgnoreFiles
    /\ denied \in {{p} : p \in fs}
    /\ Started
NextDenied == NewDirectoryTree \/ Generate \/ TreeBody \/ Combine

SpecDenied == InitDenied /\ [][NextDenied]_vars


(***************************************************************************)
(* Vocabulary of the properties.                                           *)
(***************************************************************************)
IsEntryLine(line) == line.kind \in {"dir", "file"}
Count(tree, kind) == Cardinality({i \in 1..Len(tree) : tree[i].kind = kind})
EntryPaths(tree) == {tree[i].path : i \in {k \in 1..Len(tree) : IsEntryLine(tree[k])}}
FilePaths(tree) == {tree[i].path : i \in {k \in 1..Len(tree) : tree[k].kind = "file"}}
IsPrefix(d, p) == Len(d) <= Len(p) /\ SubSeq(p, 1, Len(d)) = d
Prefixes(p) == {SubSeq(p, 1, n) : n \in 1..Len(p)}

\* The trees of the builds that returned: those of the tree script and the
\* one combine_files renders into its document.
ReturnedTrees ==
    {calls[i].tree : i \in {k \in 1..Len(calls) : calls[k].exc = ""}}
    \cup {comb[i].tree : i \in {k \in 1..Len(comb) : comb[k].exc = ""}}
\* The lists the generators hold after any call, returned or raised.
AllTrees ==
    {calls[i].tree : i \in 1..Len(calls)} \cup {comb[i].tree : i \in 1..Len(comb)}

\* The paths combine_files wrote a delimiter block for.
BlockPaths(c) == {c.out[i].p : i \in {k \in 1..Len(c.out) : c.out[k].k = "path"}}

GitIgnoreLines == IF <<GITIGNORE>> \in fs THEN ignore[GITIGNORE] ELSE <<>>

(***************************************************************************)
(* C1: no entry whose root-relative path the ignore spec excludes appears  *)
(* as a line of a tree output, and no such file gets a delimiter block in  *)
(* the combined output (negation patterns included).                       *)
(***************************************************************************)
C1_IgnoredNeverShown ==
    /\ \A tree \in AllTrees : \A i \in 1..Len(tree) :
          IsEntryLine(tree[i]) => ~match_file(GitIgnoreLines, tree[i].path)
    /\ \A i \in 1..Len(comb) : \A path \in BlockPaths(comb[i]) :
          ~match_file(IF <<comb[i].ignore_file>> \in fs
                      THEN ignore[comb[i].ignore_file] ELSE <<>>, path)

\* combine_files returned over a project in which one file is excluded by a
\* pattern and another is re-included by a negation; the second has a block
\* and a tree line, the first has neither.
C1_Witness ==
    /\ comb # <<>>
    /\ comb[1].exc = ""
    /\ comb[1].ignore_file = GITIGNORE
    /\ GitIgnoreLines = <<"*.py", "!a.py">>
    /\ <<"src", "a.py">> \in BlockPaths(comb[1]) \cap EntryPaths(comb[1].tree)
    /\ <<"b.py">> \in fs \ BlockPaths(comb[1])
    /\ <<"b.py">> \notin EntryPaths(comb[1].tree)

(***************************************************************************)
(* C2: the files combine_files writes a delimiter block for are exactly    *)
(* the file entries the tree engine renders with default options.          *)
(***************************************************************************)
\* The file entries of the default-option tree: the tree combine_files
\* rendered, or for the option-bearing generator what its walk selects.
DefaultTreeFiles(c) ==
    IF variant = "app" THEN FilePaths(c.tree)
    ELSE FilePaths(head_and_body_opt(
             TreeGenerator(1, "opt", [World EXCEPT !.fs = fs \ {<<COMBINED>>}],
                           FALSE, FALSE, {}, GITIGNORE),
             [World EXCEPT !.fs = fs \ {<<COMBINED>>}]).lines)

C2_SameSelection ==
    \A i \in 1..Len(comb) : BlockPaths(comb[i]) = DefaultTreeFiles(comb[i])

(***************************************************************************)
(* C3: in combine_files the DirectoryTree and the file loop filter with    *)
(* the same pattern list, whatever the ignore_file argument.               *)
(***************************************************************************)
C3_SamePatterns ==
    \A i \in 1..Len(comb) : comb[i].tree_patterns = comb[i].loop_patterns

(***************************************************************************)
(* C4 (as claimed): in the output of a tree build the number of closing    *)
(* lines equals the number of directory lines, the root head line counted. *)
(***************************************************************************)
C4_ClosingsEqualDirectoryLines ==
    \A tree \in ReturnedTrees :
        Count(tree, "close") = Count(tree, "dir") + Count(tree, "head")

(***************************************************************************)
(* C4 (amended): in the output of a tree build that returns, every         *)
(* sub-directory line is closed by exactly one closing line, emitted after *)
(* all lines of that directory's subtree (also when the directory is empty *)
(* or all its children are excluded); the root head line has no closing    *)
(* line, so the closing lines are as many as the sub-directory lines.      *)
(***************************************************************************)
C4_SubdirectoriesClosed ==
    \A tree \in ReturnedTrees :
        /\ \A i \in 1..Len(tree) : tree[i].kind = "dir" =>
              \E j \in (i + 1)..Len(tree) :
                  /\ tree[j].kind = "close" /\ tree[j].path = tree[i].path
                  /\ \A k \in 1..Len(tree) :
                        /\ (tree[k].kind = "close" /\ tree[k].path = tree[i].path)
                              => k = j
                        /\ (tree[k].kind # "head" /\ IsPrefix(tree[i].path, tree[k].path))
                              => (i <= k /\ k <= j)
        /\ \A j \in 1..Len(tree) : tree[j].kind = "close" => tree[j].path # <<>>
        /\ Count(tree, "close") = Count(tree, "dir")

\* A build returned a tree in which a directory that has children, all of
\* them excluded, is closed right after its line, and an empty directory too.
C4_Witness ==
    \E tree \in ReturnedTrees : \E i, k \in 1..(Len(tree) - 1) :
        /\ tree[i].kind = "dir" /\ tree[i + 1].kind = "close"
        /\ \E p \in fs : Parent(p) = tree[i].path
        /\ tree[k].kind = "dir" /\ tree[k + 1].kind = "close"
        /\ ~\E p \in fs : Parent(p) = tree[k].path

(***************************************************************************)
(* C5: with dir_only set no line of the tree output names a non-directory  *)
(* entry: every entry line is a directory line with the trailing separator.*)
(***************************************************************************)
C5_DirOnlyShowsNoFile ==
    (script = "generate_tree" /\ opts.dir_only) =>
        \A tree \in AllTrees : \A i \in 1..Len(tree) :
            IsEntryLine(tree[i]) =>
                /\ is_dir(tree[i].path)
                /\ Last(tree[i].text) = SEP

\* A dir_only build returned over a directory that holds a file next to a
\* rendered sub-directory.
C5_Witness ==
    /\ script = "generate_tree" /\ opts.dir_only
    /\ \E tree \in ReturnedTrees : \E i \in 1..Len(tree) :
          /\ tree[i].kind = "dir"
          /\ \E p \in fs : is_file(p) /\ Parent(p) = Parent(tree[i].path)
          /\ \E p \in fs : is_file(p) /\ Parent(p) = tree[i].path


(***************************************************************************)
(* C6: with a depth limit d the output holds the head line and every       *)
(* non-excluded entry down to d+1 levels below the root, and no deeper     *)
(* entry; with limit 0 the head line and the root's children only.         *)
(***************************************************************************)
\* The entries no filter of the build excludes, themselves or by an ancestor.
NotExcluded(p) ==
    /\ \A q \in Prefixes(p) :
          /\ opts.include_hidden \/ ~startswith_dot(Last(q))
          /\ ~match_file(GitIgnoreLines, q)
          /\ Last(q) # PYCACHE
    /\ opts.dir_only => is_dir(p)

C6_DepthLimitShowsLevels ==
    (script = "generate_tree" /\ opts.limit_depth # {}) =>
        \A i \in 1..Len(calls) : \A d \in opts.limit_depth :
            /\ calls[i].tree # <<>>
            /\ calls[i].tree[1] = tree_head
            /\ EntryPaths(calls[i].tree) =
                  {p \in fs : NotExcluded(p) /\ Len(p) <= d + 1}

(***************************************************************************)
(* C7: an entry whose name starts with "." and that no pattern excludes,   *)
(* and every entry below a hidden directory, is absent from the default    *)
(* tree output and present in the one built with include_hidden.           *)
(***************************************************************************)
HiddenOrBelowHidden(p) == \E q \in Prefixes(p) : startswith_dot(Last(q))

C7_HiddenFollowsOption ==
    (script = "generate_tree" /\ variant = "opt" /\ ~opts.dir_only
        /\ opts.limit_depth = {}) =>
        \A i \in 1..Len(calls) : \A p \in fs :
            (/\ HiddenOrBelowHidden(p)
             /\ \A q \in Prefixes(p) :
                   ~match_file(GitIgnoreLines, q) /\ Last(q) # PYCACHE)
            => (p \in EntryPaths(calls[i].tree) <=> opts.include_hidden)

(***************************************************************************)
(* C8: of two tree builds over an unchanged project with unchanged options *)
(* the second hands back the same line sequence as the first, on a fresh   *)
(* generator or on the same one.                                           *)
(***************************************************************************)
C8_SecondBuildIdentical ==
    \A i, j \in 1..Len(calls) :
        (i < j /\ calls[i].exc = "" /\ calls[j].exc = "") =>
            Text(calls[j].tree) = Text(calls[i].tree)

(***************************************************************************)
(* C9: over src/a.py, src/.hidden, README.md with the ignore file holding  *)
(* README.md, the default-option output is the head line, the tee line of  *)
(* src/, the elbow line of a.py below the bar, and one closing line.       *)
(***************************************************************************)
Scenario ==
    /\ fs = ScenarioProject \cup {<<GITIGNORE>>}
    /\ ignore[GITIGNORE] = <<"README.md">>

C9_ScenarioOutput ==
    (Scenario /\ script = "generate_tree" /\ variant = "opt"
        /\ opts = DefaultOptions) =>
        \A i \in 1..Len(calls) :
            /\ Len(calls[i].tree) = 4
            /\ calls[i].tree[1].text = <<RootName, SEP>>
            /\ calls[i].tree[2].text = <<TEE, " ", "src", SEP>>
            /\ calls[i].tree[3].text = <<PIPE_PREFIX, ELBOW, " ", "a.py">>
            /\ calls[i].tree[4].kind = "close"

(***************************************************************************)
(* C10: combine_files over a root whose only file is x.txt ("hello"), with *)
(* no ignore file, writes for every output directory a file that ends with *)
(* the delimiter block of x.txt and the text hello, and holds no other     *)
(* delimiter block.                                                        *)
(***************************************************************************)
C10_SingleFileTail ==
    (script = "combine_code" /\ fs \ {<<COMBINED>>} = {<<"x.txt">>}) =>
        \A i \in 1..Len(comb) :
            LET out == comb[i].out
                n == Len(out)
            IN  /\ comb[i].exc = ""
                /\ n >= 4
                /\ out[n - 3].k = "separator"
                /\ out[n - 2] = Chunk("path", <<"x.txt">>, <<>>)
                /\ out[n - 1].k = "separator"
                /\ out[n] = Chunk("content", <<"x.txt">>, <<"hello">>)
                /\ Cardinality({k \in 1..n : out[k].k = "path"}) = 1

(***************************************************************************)
(* C11: when the listing of one sub-directory fails during the tree walk,  *)
(* the walk does not abort: the build ends as it ends, and leaves the      *)
(* lines it leaves, over the same project with that directory listable and *)
(* empty.                                                                  *)
(***************************************************************************)
\* The world in which directory d can be listed and holds nothing.
AsIfEmpty(d) ==
    [World EXCEPT !.denied = {},
                  !.fs = {p \in fs : p = d \/ ~IsPrefix(d, p)}]

C11_UnlistableDirectorySkipped ==
    script = "generate_tree" =>
        \A d \in denied : is_dir(d) =>
            \A i \in 1..Len(calls) :
                LET w0 == AsIfEmpty(d)
                    g0 == TreeGenerator(calls[i].gid, variant, w0, opts.dir_only,
                              opts.include_hidden, opts.limit_depth, GITIGNORE)
                    expected == IF calls[i].op = "generate"
                                THEN build_tree(g0, w0)
                                ELSE head_and_body_opt(g0, w0)
                IN  /\ calls[i].exc = expected.exc
                    /\ calls[i].tree = expected.lines

(***************************************************************************)
(* C12: when one non-excluded file cannot be opened during combine_files,  *)
(* the file blocks of the combined output are those written over the same  *)
(* project without that file: no delimiter block and no content of the     *)
(* failing file, every other block and content as it would be.             *)
(***************************************************************************)
\* The world in which file f does not exist.
WithoutFile(f) == [World EXCEPT !.denied = {}, !.fs = fs \ {f}]

\* What combine_files wrote after the instructions and the structure.
FileBlocks(c) == SubSeq(c.out, 4, Len(c.out))

C12_UnreadableFileAbsent ==
    \A i \in 1..Len(comb) : \A f \in denied :
        (/\ comb[i].exc = ""
         /\ ~is_dir(f)
         /\ ~match_file(comb[i].loop_patterns, f))
        => \E own \in OwnReads :
              FileBlocks(comb[i]) =
                  write_files(WithoutFile(f), comb[i].loop_patterns,
                              os_walk(WithoutFile(f), <<>>), own)

(***************************************************************************)
(* C13: load_ignore_patterns returns the lines of the ignore file in file  *)
(* order when the file exists and can be read, returns the empty list when *)
(* the file does not exist, and on any other failure of the read logs the  *)
(* error and raises it again instead of returning a list.                  *)
(***************************************************************************)
C13_LoadIgnorePatterns ==
    \A i \in 1..Len(loads) :
        LET call == loads[i]
            path == <<call.ignore_file>>
        IN  /\ (path \in fs /\ path \notin denied) =>
                  /\ call.exc = ""
                  /\ call.patterns = ignore[call.ignore_file]
                  /\ call.logged = <<>>
            /\ path \notin fs =>
                  /\ call.exc = ""
                  /\ call.patterns = <<>>
                  /\ call.logged = <<>>
            /\ (path \in fs /\ path \in denied) =>
                  /\ call.exc = "PermissionError"
                  /\ call.logged # <<>>

\* combine_files loaded the lines of the ignore file it was given and then
\* failed in the constructor of the tree, whose ignore file cannot be read:
\* the error was logged and raised, and nothing was written.
C13_Witness ==
    /\ Len(loads) = 2
    /\ loads[1].ignore_file = MYIGNORE
    /\ loads[1].exc = "" /\ loads[1].patterns = <<"README.md">>
    /\ loads[2].ignore_file = GITIGNORE
    /\ ignore[GITIGNORE] = <<"*.py", "!a.py">>
    /\ loads[2].exc = "PermissionError" /\ loads[2].logged # <<>>
    /\ comb # <<>> /\ comb[1].exc = "PermissionError" /\ comb[1].out = <<>>

(***************************************************************************)
(* C14: within every rendered directory the last entry that gets a line is *)
(* drawn with the elbow connector and every other one with the tee; the    *)
(* lines of the children of a directory that is not the last line of its   *)
(* parent carry the bar continuation below it, those of the children of a  *)
(* last directory blank padding.                                           *)
(***************************************************************************)
\* The pieces of an entry line: prefix, connector, " ", name and, on a
\* directory line, the separator.
PrefixOf(line) == SubSeq(line.text, 1, Len(line.path) - 1)
ConnectorOf(line) == line.text[Len(line.path)]

\* Line i is the last line among the lines of the entries of its directory.
LastOfSiblings(tree, i) ==
    ~\E j \in (i + 1)..Len(tree) :
        /\ IsEntryLine(tree[j])
        /\ Parent(tree[j].path) = Parent(tree[i].path)

C14_ConnectorsFollowRenderedLines ==
    \A tree \in ReturnedTrees : \A i \in 1..Len(tree) :
        IsEntryLine(tree[i]) =>
            /\ ConnectorOf(tree[i]) =
                  (IF LastOfSiblings(tree, i) THEN ELBOW ELSE TEE)
            /\ \A k \in 1..Len(tree) :
                  (tree[k].kind = "dir" /\ tree[k].path = Parent(tree[i].path))
                  => PrefixOf(tree[i]) =
                        Append(PrefixOf(tree[k]),
                               IF LastOfSiblings(tree, k) THEN SPACE_PREFIX
                               ELSE PIPE_PREFIX)

(***************************************************************************)
(* C15: among the sibling lines of every rendered directory every          *)
(* directory line precedes every file line, and the lines of each of the   *)
(* two groups follow the order of the filesystem listing, whatever the     *)
(* kind of the entries.                                                    *)
(***************************************************************************)
\* The place of a name in the listing order.
Position(name) == CHOOSE k \in 1..Len(order) : order[k] = name

C15_DirectoriesFirstListingOrder ==
    \A tree \in ReturnedTrees : \A i, j \in 1..Len(tree) :
        (/\ i < j
         /\ IsEntryLine(tree[i]) /\ IsEntryLine(tree[j])
         /\ Parent(tree[i].path) = Parent(tree[j].path))
        => /\ ~(tree[i].kind = "file" /\ tree[j].kind = "dir")
           /\ tree[i].kind = tree[j].kind =>
                 Position(Last(tree[i].path)) < Position(Last(tree[j].path))

(***************************************************************************)
(* C16: over a finite project the system lets the program read, without    *)
(* link cycles, and with every combination of dir_only, include_hidden and *)
(* limit_depth, DirectoryTree.generate of the option-bearing generator     *)
(* returns without raising and hands back the complete line sequence,      *)
(* which starts with the head line of the root.                            *)
(***************************************************************************)
C16_GenerateReturns ==
    (script = "generate_tree" /\ variant = "opt" /\ denied = {}) =>
        \A i \in 1..Len(calls) :
            calls[i].op = "generate" =>
                /\ calls[i].exc = ""
                /\ calls[i].tree # <<>>
                /\ calls[i].tree[1] = tree_head
                /\ calls[i].printed = Text(calls[i].tree)

====
